---- MODULE Spec2Model ----
(***************************************************************************)
(* A model of the TNI mission phase simulator (tni_simulator.py) and of     *)
(* the delta-v calculators (tni_deltav_calculations.py).                   *)
(*                                                                         *)
(* Units.  Floating-point quantities are held as exact integers:           *)
(*   time_s, dt          seconds                                           *)
(*   altitude_km         1/AltUnitsPerKm kilometre                         *)
(*   position_error_m    micrometres                                       *)
(*   velocity_error_mps  micrometres per second                            *)
(*   dv_saved_mps        1/DvUnitsPerMicro micrometre per second           *)
(*   speed multipliers   quarters (0.25 -> 1, ..., 4.0 -> 16)              *)
(* Only frames whose dt times the speed multiplier is a whole number of    *)
(* seconds are explored, so that every value above is exact.               *)
(* The calculators hold every delta-v in 1/DvUnitsPerMps m/s and orbital    *)
(* speeds in 1/(1000 * SpeedUnitsPerKmps) km/s; square roots are taken to   *)
(* that resolution, so their results agree with the floating-point code to  *)
(* about 0.01 m/s.                                                          *)
(***************************************************************************)
EXTENDS Integers, Sequences, FiniteSets

VARIABLES
    time_s,                    \* self.time_s
    is_running,                \* self.is_running
    current_phase,             \* self.current_phase
    altitude_km,               \* self.altitude_km
    position_error_m,          \* self.position_error_m
    velocity_error_mps,        \* self.velocity_error_mps
    dv_saved_mps,              \* self.dv_saved_mps
    active_links,              \* self.active_links
    is_tni_active,             \* self.is_tni_active
    speed_index,               \* self.speed_index
    current_speed_multiplier,  \* self.current_speed_multiplier
    vehicle,                   \* self.vehicle (polar position, angle, alt)
    satellites,                \* self.satellites (angle travelled by each)
    links_drawn,               \* laser links on self.screen (last frame drawn)
    runKind,                   \* history: what has run since construction/reset
    sumDt                      \* history: sum of dt over a plain started run

simVars == <<time_s, is_running, current_phase, altitude_km, position_error_m,
             velocity_error_mps, dv_saved_mps, active_links, is_tni_active,
             speed_index, current_speed_multiplier, vehicle, satellites>>
histVars == <<runKind, sumDt>>
vars == <<time_s, is_running, current_phase, altitude_km, position_error_m,
          velocity_error_mps, dv_saved_mps, active_links, is_tni_active,
          speed_index, current_speed_multiplier, vehicle, satellites,
          links_drawn, runKind, sumDt>>

\* The delta-v calculators (tni_deltav_calculations.py) work on objects of
\* their own.
VARIABLES
    scenario,                  \* arguments of the last rendezvous analysis
    standard,                  \* DeltaVBreakdown of calculate_standard_rendezvous
    tni,                       \* DeltaVBreakdown of calculate_tni_rendezvous
    edits,                     \* history: attribute assignments since then
    hohmann,                   \* last hohmann_transfer call, both argument orders
    phasing,                   \* last phasing_maneuver call
    propellant,                \* last rocket-equation call, both implementations
    orbit                      \* last OrbitParams built and its velocity_ms

\* The presentation simulation (tni_presentation.py).
VARIABLES
    time,                      \* self.time
    data,                      \* self.data (ComparisonData)
    pos_history_std,           \* self.pos_history_std
    pos_history_tni,           \* self.pos_history_tni
    vel_history_std,           \* self.vel_history_std
    vel_history_tni            \* self.vel_history_tni

rendezvousVars == <<scenario, standard, tni, edits>>
maneuverVars == <<hohmann, phasing>>
economyVars == <<propellant, orbit>>
presVars == <<time, data, pos_history_std, pos_history_tni, vel_history_std,
              vel_history_tni>>
\* Everything outside the mission phase simulator.
calcVars == <<scenario, standard, tni, edits, hohmann, phasing, propellant,
              orbit, time, data, pos_history_std, pos_history_tni,
              vel_history_std, vel_history_tni>>
allVars == <<vars, calcVars>>

(***************************************************************************)
(* Bounds of the model.                                                    *)
(***************************************************************************)
\* Simulated time is explored up to this many seconds.
MaxTime == 320
\* random.random() is drawn from {0, 1/JitterLevels, ..., (JitterLevels-1)/JitterLevels}.
JitterLevels == 2
\* The most attribute assignments followed on one pair of breakdowns.
MaxEdits == 1
\* The frame times dt (seconds) a frame can deliver.
DtValues == {0, 2, 4, 10, 40}

(***************************************************************************)
(* Representation and program constants.                                   *)
(***************************************************************************)
AltUnitsPerKm == 300
DvUnitsPerMicro == 10
EARTH_RADIUS_KM == 6371
NumSats == 18

ASCENT_END == 150
TNI_ACTIVATION_END == 170
ORBITAL_INSERTION_END == 290
TNI_DISCONNECT_END == 310

\* SPEED_MULTIPLIERS = [0.25, 0.5, 1.0, 2.0, 4.0], in quarters, 0-indexed.
SPEED_MULTIPLIERS == <<1, 2, 4, 8, 16>>
SpeedAt(i) == SPEED_MULTIPLIERS[i + 1]
DefaultSpeedIndex == 2

PhaseNames == <<"PRE-LAUNCH", "ASCENT", "TNI ACTIVATION", "ORBITAL INSERTION",
                "TNI DISCONNECT", "NOMINAL ORBIT">>

InitialPositionError == 25000000
InitialVelocityError == 150000

Min(a, b) == IF a < b THEN a ELSE b
Max(a, b) == IF a > b THEN a ELSE b

(***************************************************************************)
(* The formulas of _update_simulation_state.                               *)
(***************************************************************************)
\* effective_dt = dt * self.current_speed_multiplier (mult in quarters)
EffectiveDt(dt, mult) == (dt * mult) \div 4

\* The if/elif chain over TIME_PHASES: the phase the new t falls in.
PhaseOfAscentInclusive(t) ==
    IF t <= ASCENT_END THEN "ASCENT"
    ELSE IF t < TNI_ACTIVATION_END THEN "TNI ACTIVATION"
    ELSE IF t < ORBITAL_INSERTION_END THEN "ORBITAL INSERTION"
    ELSE IF t < TNI_DISCONNECT_END THEN "TNI DISCONNECT"
    ELSE "NOMINAL ORBIT"
PhaseOfWrongKey(t) ==
    IF t < TNI_ACTIVATION_END THEN "ASCENT"
    ELSE IF t < TNI_ACTIVATION_END THEN "TNI ACTIVATION"
    ELSE IF t < ORBITAL_INSERTION_END THEN "ORBITAL INSERTION"
    ELSE IF t < TNI_DISCONNECT_END THEN "TNI DISCONNECT"
    ELSE "NOMINAL ORBIT"
PhaseOfWrapping(t) ==
    IF t % TNI_DISCONNECT_END < ASCENT_END THEN "ASCENT"
    ELSE IF t % TNI_DISCONNECT_END < TNI_ACTIVATION_END THEN "TNI ACTIVATION"
    ELSE IF t % TNI_DISCONNECT_END < ORBITAL_INSERTION_END THEN "ORBITAL INSERTION"
    ELSE "TNI DISCONNECT"
PhaseOf(t) ==
    IF t < ASCENT_END THEN "ASCENT"
    ELSE IF t < TNI_ACTIVATION_END THEN "TNI ACTIVATION"
    ELSE IF t < ORBITAL_INSERTION_END THEN "ORBITAL INSERTION"
    ELSE IF t < TNI_DISCONNECT_END THEN "TNI DISCONNECT"
    ELSE "NOMINAL ORBIT"

\* (t / 150) * 200
AscentAltitudeWrongSpan(t) == (t * 200 * AltUnitsPerKm) \div TNI_ACTIVATION_END
AscentAltitude(t) == (t * 200 * AltUnitsPerKm) \div ASCENT_END
\* 200 + (t - 170) * 0.91
InsertionAltitudeWrongKey(t) ==
    200 * AltUnitsPerKm
      + ((t - ORBITAL_INSERTION_END) * 91 * AltUnitsPerKm) \div 100
InsertionAltitude(t) ==
    200 * AltUnitsPerKm
      + ((t - TNI_ACTIVATION_END) * 91 * AltUnitsPerKm) \div 100

\* min(10, int((t - 150) * 0.5))
ActivationLinksUnscaled(t) == t - ASCENT_END
ActivationLinks(t) == Min(10, (t - ASCENT_END) \div 2)
\* max(0, 10 - int((t - 290) * 0.5))
DisconnectLinks(t) == Max(0, 10 - ((t - ORBITAL_INSERTION_END) \div 2))

\* 20 * math.exp(-tni_time / 9) and 0.15 * math.exp(-tni_time / 7), rounded to
\* the micrometre, for tni_time = 0, 1, ..., 19 seconds.
PositionDecayTable ==
    << 20000000, 17896786, 16014748, 14330626, 12823608,
       11475068, 10268342, 9188516, 8222246, 7357589,
       6583860, 5891497, 5271943, 4717542, 4221442,
       3777512, 3380266, 3024795, 2706706, 2422067 >>
VelocityDecayTable ==
    << 150000, 130032, 112722, 97716, 84708,
       73431, 63656, 55182, 47836, 41468,
       35948, 31162, 27014, 23418, 20300,
       17598, 15255, 13224, 11464, 9938 >>
\* max(0.03, 20 * math.exp(-tni_time / 9))
ActivationPositionError(t) == Max(30000, PositionDecayTable[(t - ASCENT_END) + 1])
\* max(0.003, 0.15 * math.exp(-tni_time / 7))
ActivationVelocityError(t) == Max(3000, VelocityDecayTable[(t - ASCENT_END) + 1])

\* 0.03 + random.random() * 0.02, the draw being r / JitterLevels
InsertionPositionError(r) == 30000 + (r * 20000) \div JitterLevels
\* 0.002 + random.random() * 0.001
InsertionVelocityError(r) == 2000 + (r * 1000) \div JitterLevels
\* 45 * (1 - self.position_error_m / 25)
DvSaved(pos) == 45000000 * DvUnitsPerMicro - (9 * DvUnitsPerMicro * pos) \div 5

(***************************************************************************)
(* The branches of _update_simulation_state, each setting the fields its   *)
(* branch assigns and leaving the others as they are.                      *)
(***************************************************************************)
UpdateAscent(t) ==
    /\ current_phase' = "ASCENT"
    /\ altitude_km' = AscentAltitude(t)
    /\ is_tni_active' = FALSE
    /\ active_links' = 0
    /\ position_error_m' = InitialPositionError
    /\ velocity_error_mps' = InitialVelocityError
    /\ UNCHANGED <<dv_saved_mps, is_running>>

UpdateActivation(t) ==
    /\ current_phase' = "TNI ACTIVATION"
    /\ is_tni_active' = TRUE
    /\ active_links' = ActivationLinks(t)
    /\ position_error_m' = ActivationPositionError(t)
    /\ velocity_error_mps' = ActivationVelocityError(t)
    /\ UNCHANGED <<altitude_km, dv_saved_mps, is_running>>

UpdateInsertionDvFromVelocity(t, r1, r2) ==
    /\ current_phase' = "ORBITAL INSERTION"
    /\ altitude_km' = InsertionAltitude(t)
    /\ position_error_m' = InsertionPositionError(r1)
    /\ velocity_error_mps' = InsertionVelocityError(r2)
    /\ dv_saved_mps' = DvSaved(InsertionVelocityError(r2))
    /\ UNCHANGED <<is_tni_active, active_links, is_running>>
UpdateInsertion(t, r1, r2) ==
    /\ current_phase' = "ORBITAL INSERTION"
    /\ altitude_km' = InsertionAltitude(t)
    /\ position_error_m' = InsertionPositionError(r1)
    /\ velocity_error_mps' = InsertionVelocityError(r2)
    /\ dv_saved_mps' = DvSaved(InsertionPositionError(r1))
    /\ UNCHANGED <<is_tni_active, active_links, is_running>>

UpdateDisconnectCountdown(t) ==
    /\ current_phase' = "TNI DISCONNECT"
    /\ active_links' = Max(0, active_links - 1)
    /\ UNCHANGED <<altitude_km, position_error_m, velocity_error_mps,
                   dv_saved_mps, is_tni_active, is_running>>
UpdateDisconnect(t) ==
    /\ current_phase' = "TNI DISCONNECT"
    /\ active_links' = DisconnectLinks(t)
    /\ UNCHANGED <<altitude_km, position_error_m, velocity_error_mps,
                   dv_saved_mps, is_tni_active, is_running>>

UpdateNominalKeepsRunning(t) ==
    /\ current_phase' = "NOMINAL ORBIT"
    /\ UNCHANGED <<altitude_km, position_error_m, velocity_error_mps,
                   dv_saved_mps, active_links, is_tni_active, is_running>>
UpdateNominal(t) ==
    /\ current_phase' = "NOMINAL ORBIT"
    /\ is_running' = FALSE
    /\ UNCHANGED <<altitude_km, position_error_m, velocity_error_mps,
                   dv_saved_mps, active_links, is_tni_active>>

(***************************************************************************)
(* The delta-v calculators: fixed-point arithmetic.                        *)
(***************************************************************************)
\* Delta-v values are held in 1/DvUnitsPerMps m/s.
DvUnitsPerMps == 10000
\* Orbital speeds are held in 1/(1000 * SpeedUnitsPerKmps) km/s and their
\* squares in 1/SpeedUnitsPerKmps^2 (km/s)^2.
SpeedUnitsPerKmps == 5000
\* MU_EARTH = 398600.4418 km^3/s^2, times SpeedUnitsPerKmps.
MU_EARTH == 1993002209

Abs(x) == IF x < 0 THEN 0 - x ELSE x

\* floor(x * a / b) without forming x * a.
MulDiv(x, a, b) == (x \div b) * a + ((x % b) * a) \div b

\* floor(sqrt(n)) by bisection; hi * hi stays below 2^31.
RECURSIVE SqrtBetween(_, _, _)
SqrtBetween(n, lo, hi) ==
    IF lo = hi THEN lo
    ELSE LET mid == (lo + hi + 1) \div 2
         IN  IF mid * mid <= n THEN SqrtBetween(n, mid, hi)
                               ELSE SqrtBetween(n, lo, mid - 1)
ISqrt(n) == SqrtBetween(n, 0, 46340)

\* math.sqrt(n) in thousandths: the integer root and one Newton correction.
SqrtMilli(n) ==
    LET s == ISqrt(n)
    IN  s * 1000 + ((n - s * s) * 1000) \div (2 * s)

\* mu / r, the square of the circular speed at radius r_km.
CircularSpeedSq(r_km) == MulDiv(MU_EARTH, SpeedUnitsPerKmps, r_km)

\* mu * (2 / r - 2 / (r1 + r2)), the square of the speed on the transfer
\* ellipse at radius r_km: (mu / r) * (1 + ((r1 + r2) - 2 r) / (r1 + r2)).
TransferSpeedSq(r_km, r1_km, r2_km) ==
    CircularSpeedSq(r_km)
      + MulDiv(CircularSpeedSq(r_km), (r1_km + r2_km) - 2 * r_km, r1_km + r2_km)

\* A speed difference times 1000 (km/s to m/s), in delta-v units.
ToDvUnits(speed) == MulDiv(speed, DvUnitsPerMps, SpeedUnitsPerKmps)

\* OrbitParams.radius_km and OrbitParams.velocity_ms
RadiusKm(alt_km) == 6371 + alt_km
VelocityMs(alt_km) == ToDvUnits(SqrtMilli(CircularSpeedSq(RadiusKm(alt_km))))

\* The inputs explored.
AltitudeValues == {350, 395, 400, 450}
SeparationValues == {0, 50, 100, 200}
AngleValues == {0, 1, 60, 180, 360, 540}
PhaseAngleValues == {0, 30, 180}
\* The values assigned to a component by SetComponent (0 and 10 m/s).
EditValues == {0, 10 * DvUnitsPerMps}

\* math.sin(math.radians(angle_deg) / 2) in millionths, for the angles
\* explored (sin 0.5, 30, 90, 180 and 270 degrees).
SinHalfAngle(angle_deg) ==
    CASE angle_deg = 0 -> 0
      [] angle_deg = 1 -> 8727
      [] angle_deg = 60 -> 500000
      [] angle_deg = 180 -> 1000000
      [] angle_deg = 360 -> 0
      [] angle_deg = 540 -> 0 - 1000000

\* x * s / 1000000 for s in millionths, in two parts to stay in range.
MulMillionths(x, s) ==
    MulDiv(x, s \div 1000, 1000) + MulDiv(x, s % 1000, 1000000)

\* math.log10(max(1, separation_km)) in delta-v units, for the separations
\* explored.
Log10Separation(separation_km) ==
    LET x == Max(1, separation_km)
    IN  CASE x = 1 -> 0
          [] x = 50 -> 16990
          [] x = 100 -> 20000
          [] x = 200 -> 23010

\* hohmann_transfer without the abs() around each burn.
HohmannTransferSigned(r1_km, r2_km) ==
    LET v1 == SqrtMilli(CircularSpeedSq(r1_km))
        v2 == SqrtMilli(CircularSpeedSq(r2_km))
        v_transfer_1 == SqrtMilli(TransferSpeedSq(r1_km, r1_km, r2_km))
        v_transfer_2 == SqrtMilli(TransferSpeedSq(r2_km, r1_km, r2_km))
    IN  <<ToDvUnits(v_transfer_1 - v1), ToDvUnits(v2 - v_transfer_2)>>

\* hohmann_transfer with the second burn taken at the first apsis.
HohmannTransferWrongApsis(r1_km, r2_km) ==
    LET v1 == SqrtMilli(CircularSpeedSq(r1_km))
        v2 == SqrtMilli(CircularSpeedSq(r2_km))
        v_transfer_1 == SqrtMilli(TransferSpeedSq(r1_km, r1_km, r2_km))
        v_transfer_2 == SqrtMilli(TransferSpeedSq(r1_km, r1_km, r2_km))
    IN  <<ToDvUnits(Abs(v_transfer_1 - v1)), ToDvUnits(Abs(v2 - v_transfer_2))>>

\* hohmann_transfer(r1_km, r2_km): the two burns <<dv1, dv2>>.
HohmannTransfer(r1_km, r2_km) ==
    LET v1 == SqrtMilli(CircularSpeedSq(r1_km))
        v2 == SqrtMilli(CircularSpeedSq(r2_km))
        v_transfer_1 == SqrtMilli(TransferSpeedSq(r1_km, r1_km, r2_km))
        v_transfer_2 == SqrtMilli(TransferSpeedSq(r2_km, r1_km, r2_km))
    IN  <<ToDvUnits(Abs(v_transfer_1 - v1)), ToDvUnits(Abs(v2 - v_transfer_2))>>

\* plane_change(velocity_ms, angle_deg) = 2 * v * sin(angle / 2)
PlaneChange(velocity_ms, angle_deg) ==
    MulMillionths(2 * velocity_ms, SinHalfAngle(angle_deg))

\* phasing_maneuver(r_km, phase_angle_deg): the first burn of the transfer
\* down by delta_h = 5 km plus the first burn of the transfer back up.
PhasingManeuver(r_km, phase_angle_deg) ==
    LET delta_h == 5
        r1 == r_km
        r2 == r_km - delta_h
        dv_down == HohmannTransfer(r1, r2)[1]
        dv_up == HohmannTransfer(r2, r1)[1]
    IN  dv_down + dv_up

\* The fields of DeltaVBreakdown, and DeltaVBreakdown.total.
ComponentNames ==
    {"search_acquisition", "hohmann_transfer", "plane_change",
     "approach_corrections", "final_approach", "docking_maneuver",
     "safety_margin"}
SumOfSix(b) ==
    b.search_acquisition + b.hohmann_transfer + b.plane_change
      + b.approach_corrections + b.final_approach + b.docking_maneuver
Total(b) == SumOfSix(b) + b.safety_margin

\* The six components of either breakdown, completed by its safety margin of
\* percent hundredths of their sum.
WithSafetyMargin(six, percent) ==
    [search_acquisition |-> six.search_acquisition,
     hohmann_transfer |-> six.hohmann_transfer,
     plane_change |-> six.plane_change,
     approach_corrections |-> six.approach_corrections,
     final_approach |-> six.final_approach,
     docking_maneuver |-> six.docking_maneuver,
     safety_margin |-> MulDiv(SumOfSix(six), percent, 100)]

\* calculate_standard_rendezvous(chaser, target, separation_km,
\* inclination_diff_deg)
CalculateStandardRendezvous(chaser_alt, target_alt, separation_km, inclination_diff_deg) ==
    LET dv == HohmannTransfer(RadiusKm(chaser_alt), RadiusKm(target_alt))
    IN  WithSafetyMargin(
          [search_acquisition |->
               8 * DvUnitsPerMps + (separation_km * 2 * DvUnitsPerMps) \div 50,
           hohmann_transfer |-> dv[1] + dv[2],
           plane_change |->
               IF inclination_diff_deg > 0
                 THEN PlaneChange(VelocityMs(target_alt), inclination_diff_deg)
                 ELSE 0,
           approach_corrections |->
               6 * DvUnitsPerMps + (separation_km * 4 * DvUnitsPerMps) \div 100,
           final_approach |->
               4 * DvUnitsPerMps + Log10Separation(separation_km) \div 2,
           docking_maneuver |-> 3 * DvUnitsPerMps],
          22)

\* calculate_tni_rendezvous with a safety margin of 0.9 in place of 0.09.
CalculateTniRendezvousMargin90(chaser_alt, target_alt, separation_km, inclination_diff_deg) ==
    LET dv == HohmannTransfer(RadiusKm(chaser_alt), RadiusKm(target_alt))
    IN  WithSafetyMargin(
          [search_acquisition |-> (15 * DvUnitsPerMps) \div 10,
           hohmann_transfer |-> MulDiv(dv[1] + dv[2], 7, 10),
           plane_change |->
               IF inclination_diff_deg > 0
                 THEN MulDiv(PlaneChange(VelocityMs(target_alt),
                                         inclination_diff_deg), 85, 100)
                 ELSE 0,
           approach_corrections |->
               2 * DvUnitsPerMps + (separation_km * DvUnitsPerMps) \div 200,
           final_approach |->
               (15 * DvUnitsPerMps) \div 10
                 + (2 * Log10Separation(separation_km)) \div 10,
           docking_maneuver |-> (12 * DvUnitsPerMps) \div 10],
          90)

\* calculate_tni_rendezvous(chaser, target, separation_km,
\* inclination_diff_deg)
CalculateTniRendezvous(chaser_alt, target_alt, separation_km, inclination_diff_deg) ==
    LET dv == HohmannTransfer(RadiusKm(chaser_alt), RadiusKm(target_alt))
    IN  WithSafetyMargin(
          [search_acquisition |-> (15 * DvUnitsPerMps) \div 10,
           hohmann_transfer |-> MulDiv(dv[1] + dv[2], 7, 10),
           plane_change |->
               IF inclination_diff_deg > 0
                 THEN MulDiv(PlaneChange(VelocityMs(target_alt),
                                         inclination_diff_deg), 85, 100)
                 ELSE 0,
           approach_corrections |->
               2 * DvUnitsPerMps + (separation_km * DvUnitsPerMps) \div 200,
           final_approach |->
               (15 * DvUnitsPerMps) \div 10
                 + (2 * Log10Separation(separation_km)) \div 10,
           docking_maneuver |-> (12 * DvUnitsPerMps) \div 10],
          9)

(***************************************************************************)
(* The rocket equation, in the delta-v calculator and in the performance   *)
(* analysis (tni_performace.py), and the orbit model's input handling.     *)
(***************************************************************************)
\* Masses are held in 1/MassUnitsPerKg kg, costs in 1/MassUnitsPerKg USD.
MassUnitsPerKg == 1000
\* exp() and its argument are held in 1/ExpScale.
ExpScale == 100000000
\* g0 in 1e-5 m/s^2: 9.80665 in calculate_propellant_mass, 9.81 in
\* calculate_propellant_cost_savings.
G0_DELTAV == 980665
G0_PERFORMANCE == 981000

\* <<floor(x * a / b), remainder>> for a >= 0, one binary digit of a at a
\* time, so that no intermediate value leaves the integer range.
RECURSIVE MulDivRem(_, _, _)
MulDivRem(x, a, b) ==
    IF a = 0 THEN <<0, 0>>
    ELSE LET h == MulDivRem(x, a \div 2, b)
             s == 2 * h[2] + (a % 2) * x
         IN  <<2 * h[1] + s \div b, s % b>>
\* floor(x * a / b): the whole multiples of b in x first, then the rest.
ExactMulDiv(x, a, b) == (x \div b) * a + MulDivRem(x % b, a, b)[1]
\* The same for a of either sign.
SignedMulDiv(x, a, b) ==
    IF a < 0 THEN 0 - ExactMulDiv(x, 0 - a, b) ELSE ExactMulDiv(x, a, b)

\* |dv / (isp * g0)|, the size of the argument of exp().
ExhaustRatio(dv, isp, g0) == ExactMulDiv(dv * 100000, ExpScale, Abs(isp) * g0)

\* math.exp(x) for |x| = size, x negative or not: the series up to the fifth
\* power, enough for sizes below 0.05.
Exp(size, negative) ==
    LET t1 == ExactMulDiv(ExpScale, size, ExpScale)
        t2 == ExactMulDiv(t1, size, 2 * ExpScale)
        t3 == ExactMulDiv(t2, size, 3 * ExpScale)
        t4 == ExactMulDiv(t3, size, 4 * ExpScale)
        t5 == ExactMulDiv(t4, size, 5 * ExpScale)
    IN  IF negative THEN ExpScale - t1 + t2 - t3 + t4 - t5
                    ELSE ExpScale + t1 + t2 + t3 + t4 + t5

\* A call that ended in an exception returns nothing.
Raised == [raised |-> TRUE, kg |-> 0, usd |-> 0]

\* TNIRCalculator.calculate_propellant_mass(dv_ms, dry_mass_kg, isp_s):
\* dv_ms / ve divides by zero when isp_s is 0.
CalculatePropellantMass(dv_ms, dry_mass_kg, isp_s) ==
    IF isp_s = 0 THEN Raised
    ELSE LET mass_ratio == Exp(ExhaustRatio(dv_ms, isp_s, G0_DELTAV), isp_s > 0)
             m_initial == SignedMulDiv(ExpScale, dry_mass_kg * MassUnitsPerKg,
                                       mass_ratio)
         IN  [raised |-> FALSE,
              kg |-> m_initial - dry_mass_kg * MassUnitsPerKg,
              usd |-> 0]

\* calculate_propellant_cost_savings(dv_saved_mps, isp, dry_mass_kg)
CalculatePropellantCostSavings(dv_mps, isp, dry_mass_kg) ==
    IF isp = 0 THEN Raised
    ELSE LET e == Exp(ExhaustRatio(dv_mps, isp, G0_PERFORMANCE), isp < 0)
             propellant_saved_kg ==
                 SignedMulDiv(e - ExpScale, dry_mass_kg * MassUnitsPerKg, ExpScale)
         IN  [raised |-> FALSE,
              kg |-> propellant_saved_kg,
              usd |-> propellant_saved_kg \div 2]

\* OrbitParams(altitude_km).velocity_ms: mu / radius divides by zero at radius
\* 0 and math.sqrt rejects a negative radius; nothing else is checked.
OrbitVelocity(alt_km) ==
    IF RadiusKm(alt_km) <= 0
      THEN [raised |-> TRUE, velocity_ms |-> 0]
      ELSE [raised |-> FALSE, velocity_ms |-> VelocityMs(alt_km)]

\* calculate_standard_rendezvous(OrbitParams(alt_km), OrbitParams(400), 50)
\* and the total of its breakdown: hohmann_transfer takes the same root of
\* mu / radius, and nothing else is checked.
OrbitRendezvous(alt_km) ==
    IF RadiusKm(alt_km) <= 0
      THEN [raised |-> TRUE, total |-> 0]
      ELSE [raised |-> FALSE,
            total |-> Total(CalculateStandardRendezvous(alt_km, 400, 50, 0))]

\* The inputs explored, valid and invalid.
DvValues == {0, 10, 45, 100}
IspValues == {0 - 380, 0, 350, 380}
DryMassValues == {0 - 1000, 0, 100000, 120000}
OrbitAltitudeValues == {0 - 7000, 0 - 6371, 0 - 100, 0, 400}

NoPropellant ==
    [dv_ms |-> 0, isp_s |-> 0, dry_mass_kg |-> 0, called |-> FALSE,
     mass |-> Raised, savings |-> Raised]
NoOrbit == [alt_km |-> 0, called |-> FALSE,
            result |-> [raised |-> TRUE, velocity_ms |-> 0],
            rendezvous |-> [raised |-> TRUE, total |-> 0]]

(***************************************************************************)
(* The presentation simulation (tni_presentation.py).  Position errors are *)
(* held in micrometres, velocity errors in micrometres per second, dv_saved *)
(* in 1e-6 m/s, the velocity histories (mm/s) in 1e-6 mm/s, time in        *)
(* seconds.                                                                *)
(***************************************************************************)
\* self.max_history is 300 samples; the model keeps fewer.
MaxHistory == 2
\* random.uniform(-a, a), as a multiple of a: either end of the interval.
UniformDraws == {0 - 1, 1}
\* The frame lengths explored, in seconds.
PresDtValues == {1, 5}

\* 3.0 * exp(-s / 2) and 0.1 * exp(-s / 2) for s = 0 .. 4 seconds.
PresPositionDecayTable == <<3000000, 1819592, 1103638, 669390, 406006>>
PresVelocityDecayTable == <<100000, 60653, 36788, 22313, 13534>>

\* ComparisonData()
InitData ==
    [standard_pos_error |-> 3000000, tni_pos_error |-> 3000000,
     standard_vel_error |-> 100000, tni_vel_error |-> 100000, dv_saved |-> 0]
PresInit ==
    /\ time = 0
    /\ data = InitData
    /\ pos_history_std = << >>
    /\ pos_history_tni = << >>
    /\ vel_history_std = << >>
    /\ vel_history_tni = << >>

\* min(45.0, (standard_pos_error - tni_pos_error) / 3.0 * 45.0)
PresDvSaved(standard_pos_error, tni_pos_error) ==
    Min(45000000, 15 * (standard_pos_error - tni_pos_error))

\* The four errors update() assigns at time t; u1 .. u4 are its draws of
\* random.uniform (between 5 and 10 seconds only u1 and u3 are drawn).
PresErrors(t, u1, u2, u3, u4) ==
    [standard_pos_error |-> 3000000 + u1 * 200000,
     tni_pos_error |->
         IF t < 5 THEN 3000000 + u2 * 200000
         ELSE IF t < 10 THEN Max(30000, PresPositionDecayTable[(t - 5) + 1])
         ELSE 30000 + u2 * 5000,
     standard_vel_error |-> 100000 + u3 * 10000,
     tni_vel_error |->
         IF t < 5 THEN 100000 + u4 * 10000
         ELSE IF t < 10 THEN Max(1000, PresVelocityDecayTable[(t - 5) + 1])
         ELSE 1000 + u4 * 200]

\* A history that drops the newest sample when it is full.
PushSampleDropsNewest(history, sample) ==
    LET longer == Append(history, sample)
    IN  IF Len(longer) > MaxHistory THEN history ELSE longer

\* append(sample), then pop(0) when the list is longer than max_history.
PushSample(history, sample) ==
    LET longer == Append(history, sample)
    IN  IF Len(longer) > MaxHistory THEN Tail(longer) ELSE longer

\* Before any call: no scenario, no breakdown, no maneuver computed.
NoScenario ==
    [chaser_alt |-> 0, target_alt |-> 0, separation_km |-> 0,
     inclination_diff_deg |-> 0, analysed |-> FALSE]
NoBreakdown == [c \in ComponentNames |-> 0]
NoTransfer == [r1_km |-> 0, r2_km |-> 0, forward |-> <<0, 0>>,
               backward |-> <<0, 0>>]
NoPhasing == [r_km |-> 0, phase_angle_deg |-> 0, dv |-> 0]
CalcIdle ==
    /\ scenario = NoScenario
    /\ standard = NoBreakdown
    /\ tni = NoBreakdown
    /\ edits = 0
    /\ hohmann = NoTransfer
    /\ phasing = NoPhasing
    /\ propellant = NoPropellant
    /\ orbit = NoOrbit
    /\ PresInit

\* Vehicle(): x = y = alt = angle = 0.0.  The position (x, y) is held in polar
\* form: radius r (altitude units) and angle (units of 0.02 rad).
InitVehicle == [r |-> 0, angle |-> 0, alt |-> 0]
\* _init_satellites: every satellite starts at its own angle; the model holds
\* the angle travelled since, in units of omega.
InitSatellites == [i \in 0 .. (NumSats - 1) |-> 0]

(***************************************************************************)
(* Operations.                                                             *)
(***************************************************************************)
Init ==
    /\ time_s = 0
    /\ is_running = FALSE
    /\ current_phase = "PRE-LAUNCH"
    /\ altitude_km = 0
    /\ position_error_m = InitialPositionError
    /\ velocity_error_mps = InitialVelocityError
    /\ dv_saved_mps = 0
    /\ active_links = 0
    /\ is_tni_active = FALSE
    /\ speed_index = DefaultSpeedIndex
    /\ current_speed_multiplier = SpeedAt(DefaultSpeedIndex)
    /\ vehicle = InitVehicle
    /\ satellites = InitSatellites
    /\ links_drawn = 0
    /\ runKind = "fresh"
    /\ sumDt = 0
    /\ CalcIdle
\* _update_simulation_state with the satellites moved before the early return.
AdvanceMovingSatellitesWhilePaused(dt, r1, r2) ==
    /\ (dt * current_speed_multiplier) % 4 = 0
    /\ is_running => time_s + EffectiveDt(dt, current_speed_multiplier) <= MaxTime
    /\ IF ~is_running
         THEN /\ r1 = 0 /\ r2 = 0
              /\ satellites' = [i \in DOMAIN satellites |->
                                    satellites[i]
                                      + EffectiveDt(dt, current_speed_multiplier)]
              /\ UNCHANGED <<time_s, is_running, current_phase, altitude_km,
                             position_error_m, velocity_error_mps, dv_saved_mps,
                             active_links, is_tni_active, speed_index,
                             current_speed_multiplier, vehicle>>
         ELSE LET effective_dt == EffectiveDt(dt, current_speed_multiplier)
                  t == time_s + effective_dt
                  phase == PhaseOf(t)
              IN  /\ phase # "ORBITAL INSERTION" => (r1 = 0 /\ r2 = 0)
                  /\ time_s' = t
                  /\ CASE phase = "ASCENT" -> UpdateAscent(t)
                       [] phase = "TNI ACTIVATION" -> UpdateActivation(t)
                       [] phase = "ORBITAL INSERTION" -> UpdateInsertion(t, r1, r2)
                       [] phase = "TNI DISCONNECT" -> UpdateDisconnect(t)
                       [] OTHER -> UpdateNominal(t)
                  /\ vehicle' = [r |-> EARTH_RADIUS_KM * AltUnitsPerKm + altitude_km',
                                 angle |-> t,
                                 alt |-> altitude_km']
                  /\ satellites' = [i \in DOMAIN satellites |->
                                        satellites[i] + effective_dt]
                  /\ UNCHANGED <<speed_index, current_speed_multiplier>>
    /\ runKind' = IF runKind \in {"fresh", "reset"} THEN runKind
                  ELSE IF runKind \in {"started", "advancing"} THEN "advancing"
                  ELSE "other"
    /\ sumDt' = IF runKind \in {"started", "advancing"}
                  THEN Min(sumDt + dt, MaxTime) ELSE 0

\* _update_simulation_state(dt); r1 and r2 are the two random.random() draws,
\* made only in the ORBITAL INSERTION branch (0 stands for "no draw").
Advance(dt, r1, r2) ==
    /\ (dt * current_speed_multiplier) % 4 = 0
    /\ is_running => time_s + EffectiveDt(dt, current_speed_multiplier) <= MaxTime
    /\ IF ~is_running
         THEN /\ r1 = 0 /\ r2 = 0
              /\ UNCHANGED simVars
         ELSE LET effective_dt == EffectiveDt(dt, current_speed_multiplier)
                  t == time_s + effective_dt
                  phase == PhaseOf(t)
              IN  /\ phase # "ORBITAL INSERTION" => (r1 = 0 /\ r2 = 0)
                  /\ time_s' = t
                  /\ CASE phase = "ASCENT" -> UpdateAscent(t)
                       [] phase = "TNI ACTIVATION" -> UpdateActivation(t)
                       [] phase = "ORBITAL INSERTION" -> UpdateInsertion(t, r1, r2)
                       [] phase = "TNI DISCONNECT" -> UpdateDisconnect(t)
                       [] OTHER -> UpdateNominal(t)
                  /\ vehicle' = [r |-> EARTH_RADIUS_KM * AltUnitsPerKm + altitude_km',
                                 angle |-> t,
                                 alt |-> altitude_km']
                  /\ satellites' = [i \in DOMAIN satellites |->
                                        satellites[i] + effective_dt]
                  /\ UNCHANGED <<speed_index, current_speed_multiplier>>
    /\ runKind' = IF runKind \in {"fresh", "reset"} THEN runKind
                  ELSE IF runKind \in {"started", "advancing"} THEN "advancing"
                  ELSE "other"
    /\ sumDt' = IF runKind \in {"started", "advancing"}
                  THEN Min(sumDt + dt, MaxTime) ELSE 0

\* _draw_laser_links, called by every frame after the update: it reads the
\* state the update left and draws a line to each of the closest active_links
\* satellites, none when the TNI is inactive or no link is up.
DrawLaserLinks ==
    links_drawn' = IF ~is_tni_active' \/ active_links' = 0
                     THEN 0
                     ELSE Min(active_links', NumSats)

\* One frame of run() without input events: the update, then the drawing.
Frame(dt, r1, r2) ==
    /\ Advance(dt, r1, r2)
    /\ DrawLaserLinks
    /\ UNCHANGED calcVars

\* A start/pause toggle that also rewinds the clock.
ToggleRewinds ==
    /\ is_running' = ~is_running
    /\ time_s' = 0
    /\ UNCHANGED <<current_phase, altitude_km, position_error_m,
                   velocity_error_mps, dv_saved_mps, active_links, is_tni_active,
                   speed_index, current_speed_multiplier, vehicle, satellites,
                   links_drawn>>
    /\ runKind' = IF runKind \in {"fresh", "reset"} THEN "started" ELSE "other"
    /\ sumDt' = 0
    /\ UNCHANGED calcVars

\* The START/PAUSE button and the space bar.
Toggle ==
    /\ is_running' = ~is_running
    /\ UNCHANGED <<time_s, current_phase, altitude_km, position_error_m,
                   velocity_error_mps, dv_saved_mps, active_links, is_tni_active,
                   speed_index, current_speed_multiplier, vehicle, satellites,
                   links_drawn>>
    /\ runKind' = IF runKind \in {"fresh", "reset"} THEN "started" ELSE "other"
    /\ sumDt' = 0
    /\ UNCHANGED calcVars

\* _handle_speed_change wrapping around the ends of SPEED_MULTIPLIERS.
HandleSpeedChangeWrapping(direction) ==
    /\ LET new_index == (speed_index + direction) % Len(SPEED_MULTIPLIERS)
       IN  /\ speed_index' = new_index
           /\ current_speed_multiplier' = SpeedAt(new_index)
    /\ UNCHANGED <<time_s, is_running, current_phase, altitude_km,
                   position_error_m, velocity_error_mps, dv_saved_mps,
                   active_links, is_tni_active, vehicle, satellites,
                   links_drawn>>
    /\ runKind' = "other"
    /\ sumDt' = 0
    /\ UNCHANGED calcVars

\* _handle_speed_change(direction)
HandleSpeedChange(direction) ==
    /\ LET new_index == speed_index + direction
       IN  IF 0 <= new_index /\ new_index < Len(SPEED_MULTIPLIERS)
             THEN /\ speed_index' = new_index
                  /\ current_speed_multiplier' = SpeedAt(new_index)
             ELSE UNCHANGED <<speed_index, current_speed_multiplier>>
    /\ UNCHANGED <<time_s, is_running, current_phase, altitude_km,
                   position_error_m, velocity_error_mps, dv_saved_mps,
                   active_links, is_tni_active, vehicle, satellites,
                   links_drawn>>
    /\ runKind' = "other"
    /\ sumDt' = 0
    /\ UNCHANGED calcVars

\* A reset that keeps the selected speed.
ResetKeepsSpeed ==
    /\ time_s' = 0
    /\ is_running' = FALSE
    /\ current_phase' = "PRE-LAUNCH"
    /\ altitude_km' = 0
    /\ position_error_m' = InitialPositionError
    /\ velocity_error_mps' = InitialVelocityError
    /\ dv_saved_mps' = 0
    /\ active_links' = 0
    /\ is_tni_active' = FALSE
    /\ UNCHANGED <<speed_index, current_speed_multiplier>>
    /\ vehicle' = InitVehicle
    /\ satellites' = InitSatellites
    /\ links_drawn' = 0
    /\ runKind' = "reset"
    /\ sumDt' = 0
    /\ UNCHANGED calcVars

\* The R key: self.__init__(...) and is_running = False; __init__ opens the
\* display again, with nothing drawn on it.
Reset ==
    /\ time_s' = 0
    /\ is_running' = FALSE
    /\ current_phase' = "PRE-LAUNCH"
    /\ altitude_km' = 0
    /\ position_error_m' = InitialPositionError
    /\ velocity_error_mps' = InitialVelocityError
    /\ dv_saved_mps' = 0
    /\ active_links' = 0
    /\ is_tni_active' = FALSE
    /\ speed_index' = DefaultSpeedIndex
    /\ current_speed_multiplier' = SpeedAt(DefaultSpeedIndex)
    /\ vehicle' = InitVehicle
    /\ satellites' = InitSatellites
    /\ links_drawn' = 0
    /\ runKind' = "reset"
    /\ sumDt' = 0
    /\ UNCHANGED calcVars

AdvanceStep == \E dt \in DtValues : \E r1, r2 \in 0 .. (JitterLevels - 1) :
                   Frame(dt, r1, r2)
SpeedUp == HandleSpeedChange(1)
SpeedDown == HandleSpeedChange(-1)

Next == AdvanceStep \/ Toggle \/ SpeedUp \/ SpeedDown \/ Reset

Spec == Init /\ [][Next]_allVars

\* The run loop left to itself, with no reset: every iteration calls the
\* update with the dt of clock.tick(60), which is positive, and an iteration
\* that handles a start event calls the update in the same pass; a paused
\* simulator is started again.
\* The frames of this specification are 0.5 s and 10 s long before scaling:
\* at every speed one of them is a step of at most 10 s, short enough to pass
\* t = 310 from just below it inside the time the model follows.
LiveDtValues == {2, 40}
LiveAdvanceStep ==
    \E dt \in LiveDtValues : \E r1, r2 \in 0 .. (JitterLevels - 1) :
        Frame(dt, r1, r2)
AdvancePositive == is_running /\ LiveAdvanceStep
Start == ~is_running /\ Toggle
LiveNext == LiveAdvanceStep \/ Toggle \/ SpeedUp \/ SpeedDown
LiveSpec ==
    /\ Init
    /\ [][LiveNext]_allVars
    /\ SF_allVars(AdvancePositive)
    /\ WF_allVars(Start)

(***************************************************************************)
(* Operations of the delta-v calculators.                                  *)
(***************************************************************************)
\* One scenario of the analysis: both breakdowns for the same arguments.  The
\* breakdowns of a scenario are new objects; the model starts a scenario from
\* unedited breakdowns and follows the edits of one scenario to the end.
Analyse(chaser_alt, target_alt, separation_km, inclination_diff_deg) ==
    /\ edits = 0
    /\ scenario' = [chaser_alt |-> chaser_alt, target_alt |-> target_alt,
                    separation_km |-> separation_km,
                    inclination_diff_deg |-> inclination_diff_deg,
                    analysed |-> TRUE]
    /\ standard' = CalculateStandardRendezvous(chaser_alt, target_alt,
                                               separation_km, inclination_diff_deg)
    /\ tni' = CalculateTniRendezvous(chaser_alt, target_alt,
                                     separation_km, inclination_diff_deg)
    /\ edits' = 0
    /\ UNCHANGED <<vars, maneuverVars, economyVars, presVars>>

\* An assignment to one attribute of a breakdown: DeltaVBreakdown is a plain
\* dataclass, whose seven fields are stored and assignable one by one.
SetComponent(which, field, value) ==
    /\ scenario.analysed
    /\ edits < MaxEdits
    /\ IF which = "standard"
         THEN /\ standard[field] # value
              /\ standard' = [standard EXCEPT ![field] = value]
              /\ UNCHANGED tni
         ELSE /\ tni[field] # value
              /\ tni' = [tni EXCEPT ![field] = value]
              /\ UNCHANGED standard
    /\ edits' = edits + 1
    /\ UNCHANGED <<scenario, vars, maneuverVars, economyVars, presVars>>

\* hohmann_transfer applied to a pair of radii in both orders.
Hohmann(r1_km, r2_km) ==
    /\ hohmann' = [r1_km |-> r1_km, r2_km |-> r2_km,
                   forward |-> HohmannTransfer(r1_km, r2_km),
                   backward |-> HohmannTransfer(r2_km, r1_km)]
    /\ UNCHANGED <<phasing, vars, rendezvousVars, economyVars, presVars>>

\* phasing_maneuver applied to a radius and a phase angle.
Phasing(r_km, phase_angle_deg) ==
    /\ phasing' = [r_km |-> r_km, phase_angle_deg |-> phase_angle_deg,
                   dv |-> PhasingManeuver(r_km, phase_angle_deg)]
    /\ UNCHANGED <<hohmann, vars, rendezvousVars, economyVars, presVars>>

AnalyseStep ==
    \E c, t \in AltitudeValues : \E s \in SeparationValues : \E i \in AngleValues :
        Analyse(c, t, s, i)
SetComponentStep ==
    \E which \in {"standard", "tni"} : \E f \in ComponentNames :
        \E v \in EditValues : SetComponent(which, f, v)
HohmannStep ==
    \E a1, a2 \in AltitudeValues : Hohmann(RadiusKm(a1), RadiusKm(a2))
PhasingStep ==
    \E a \in AltitudeValues : \E angle \in PhaseAngleValues :
        Phasing(RadiusKm(a), angle)

RendezvousNext == AnalyseStep \/ SetComponentStep
RendezvousSpec == Init /\ [][RendezvousNext]_allVars

ManeuverNext == HohmannStep \/ PhasingStep
ManeuverSpec == Init /\ [][ManeuverNext]_allVars

(***************************************************************************)
(* Operations of the rocket equation, the orbit model and the presentation.*)
(***************************************************************************)
\* The propellant mass for one set of arguments, by both implementations.
Propellant(dv, isp, dry) ==
    /\ propellant' = [dv_ms |-> dv, isp_s |-> isp, dry_mass_kg |-> dry,
                      called |-> TRUE,
                      mass |-> CalculatePropellantMass(dv, dry, isp),
                      savings |-> CalculatePropellantCostSavings(dv, isp, dry)]
    /\ UNCHANGED <<orbit, vars, rendezvousVars, maneuverVars, presVars>>

\* OrbitParams(altitude_km), a read of its velocity_ms, and the standard
\* rendezvous from that orbit to 400 km.
Orbit(alt_km) ==
    /\ orbit' = [alt_km |-> alt_km, called |-> TRUE,
                 result |-> OrbitVelocity(alt_km),
                 rendezvous |-> OrbitRendezvous(alt_km)]
    /\ UNCHANGED <<propellant, vars, rendezvousVars, maneuverVars, presVars>>

PropellantStep ==
    \E dv \in DvValues : \E isp \in IspValues : \E dry \in DryMassValues :
        Propellant(dv, isp, dry)
OrbitStep == \E a \in OrbitAltitudeValues : Orbit(a)

EconomyNext == PropellantStep \/ OrbitStep
EconomySpec == Init /\ [][EconomyNext]_allVars

\* TNIPresentationSim.update(dt), called by run() while self.time < 30.0.
Update(dt, u1, u2, u3, u4) ==
    /\ time < 30
    /\ LET t == time + dt
           e == PresErrors(t, u1, u2, u3, u4)
       IN  /\ time' = t
           /\ data' = [standard_pos_error |-> e.standard_pos_error,
                       tni_pos_error |-> e.tni_pos_error,
                       standard_vel_error |-> e.standard_vel_error,
                       tni_vel_error |-> e.tni_vel_error,
                       dv_saved |-> PresDvSaved(e.standard_pos_error,
                                                e.tni_pos_error)]
           /\ pos_history_std' = PushSample(pos_history_std, e.standard_pos_error)
           /\ pos_history_tni' = PushSample(pos_history_tni, e.tni_pos_error)
           /\ vel_history_std' =
                  PushSample(vel_history_std, e.standard_vel_error * 1000)
           /\ vel_history_tni' =
                  PushSample(vel_history_tni, e.tni_vel_error * 1000)
    /\ UNCHANGED <<vars, rendezvousVars, maneuverVars, economyVars>>

UpdateStep ==
    \E dt \in PresDtValues : \E u1, u2, u3, u4 \in UniformDraws :
        Update(dt, u1, u2, u3, u4)

PresNext == UpdateStep
PresSpec == Init /\ [][PresNext]_allVars

(***************************************************************************)
(* Properties of the mission phase simulator.                              *)
(***************************************************************************)
\* The mission state of the specification's data model.
missionState == <<time_s, current_phase, altitude_km, position_error_m,
                  velocity_error_mps, dv_saved_mps, active_links>>

\* The position of a phase in the mission order (PRE-LAUNCH comes first).
PhaseIdx(p) ==
    CASE p = "PRE-LAUNCH" -> 0
      [] p = "ASCENT" -> 1
      [] p = "TNI ACTIVATION" -> 2
      [] p = "ORBITAL INSERTION" -> 3
      [] p = "TNI DISCONNECT" -> 4
      [] p = "NOMINAL ORBIT" -> 5

\* TIME_PHASES, as <<phase shown, start, end>>; the last window, NOMINAL
\* ORBIT, is unbounded and handled in InWindow.
TIME_PHASES ==
    << <<"ASCENT", 0, 150>>, <<"TNI ACTIVATION", 150, 170>>,
       <<"ORBITAL INSERTION", 170, 290>>, <<"TNI DISCONNECT", 290, 310>> >>
InWindow(p, t) ==
    \/ \E i \in DOMAIN TIME_PHASES :
          /\ TIME_PHASES[i][1] = p
          /\ TIME_PHASES[i][2] <= t
          /\ t < TIME_PHASES[i][3]
    \/ p = "NOMINAL ORBIT" /\ 310 <= t

\* A step of _update_simulation_state with dt = 0.
AdvanceZero == \E r1, r2 \in 0 .. (JitterLevels - 1) : Advance(0, r1, r2)

\* C1 (as claimed): in every reachable state, the initial one included, the
\* current phase is the phase whose half-open window contains time_s.
C1_PhaseIsWindowOfTime == InWindow(current_phase, time_s)

\* C1 (amended): time_s is never negative; before the first running update
\* after construction or reset the phase is PRE-LAUNCH and time_s is 0; in
\* every other state the phase is the one whose window contains time_s.
C1_PhaseIsWindowOfTimeOncePastPreLaunch ==
    /\ time_s >= 0
    /\ IF current_phase = "PRE-LAUNCH"
         THEN time_s = 0
         ELSE InWindow(current_phase, time_s)

\* C1 witness: the simulator sits exactly on the boundary 170 of two windows,
\* paused, and shows the later phase.
C1_Witness ==
    /\ time_s = 170
    /\ current_phase = "ORBITAL INSERTION"
    /\ ~is_running

\* C2 (as claimed): without a reset, whenever one of the five phases changes
\* it changes to the immediately following phase, whatever dt and speed.
C2_NoPhaseSkipped ==
    [][(current_phase # "PRE-LAUNCH" /\ ~Reset)
         => (PhaseIdx(current_phase') = PhaseIdx(current_phase)
             \/ PhaseIdx(current_phase') = PhaseIdx(current_phase) + 1)]_vars

\* C2 (amended): without a reset, a step that advances time_s by at most the
\* length of the shortest window (20 s) keeps the phase or moves it to the
\* immediately following phase (PRE-LAUNCH being followed by ASCENT).
C2_NoPhaseSkippedBySteps20 ==
    [][(~Reset /\ time_s' - time_s <= TNI_ACTIVATION_END - ASCENT_END)
         => (PhaseIdx(current_phase') = PhaseIdx(current_phase)
             \/ PhaseIdx(current_phase') = PhaseIdx(current_phase) + 1)]_vars

\* C2 witness: a single step of 20 s has carried a running simulator from
\* t = 150, the start of TNI ACTIVATION (no link up yet), to t = 170, the
\* start of ORBITAL INSERTION.
C2_Witness ==
    /\ time_s = 170
    /\ current_phase = "ORBITAL INSERTION"
    /\ is_running
    /\ active_links = 0
    /\ is_tni_active

\* C3: without a reset the phase index never decreases: no phase is
\* revisited.
C3_NoPhaseRevisited ==
    [][~Reset => PhaseIdx(current_phase') >= PhaseIdx(current_phase)]_vars

\* C3 witness: the simulator was started again after reaching NOMINAL ORBIT
\* and is still in NOMINAL ORBIT, at a later time.
C3_Witness ==
    /\ current_phase = "NOMINAL ORBIT"
    /\ time_s > TNI_DISCONNECT_END
    /\ is_running

\* C4: after the simulator is started at t = 0 (1x) and only
\* _update_simulation_state is called, with dt summing to 310 or more, the
\* phase is NOMINAL ORBIT and is_running is false.
C4_Sum310IsNominalAndStopped ==
    (runKind = "advancing" /\ sumDt >= 310)
        => (current_phase = "NOMINAL ORBIT" /\ ~is_running)

\* C4 witness: a plain started run whose dt sum has passed 310.
C4_Witness ==
    /\ runKind = "advancing"
    /\ sumDt > 310
    /\ time_s >= 310

\* C5 (as claimed): once in NOMINAL ORBIT, no step other than a reset changes
\* any field of the mission state.
C5_NominalOrbitIsTerminal ==
    [][(current_phase = "NOMINAL ORBIT" /\ ~Reset)
         => UNCHANGED missionState]_vars

\* C6 (as claimed): a plain started run whose dt sum is 150 is still in ASCENT.
C6_Sum150KeepsAscent ==
    (runKind = "advancing" /\ sumDt = 150) => current_phase = "ASCENT"

\* C6 (amended): a plain started run of at least one update is in ASCENT while
\* its dt sum is below 150, and in TNI ACTIVATION when the sum is exactly 150.
C6_SumBelow150KeepsAscent ==
    runKind = "advancing"
        => /\ sumDt < 150 => current_phase = "ASCENT"
           /\ sumDt = 150 => current_phase = "TNI ACTIVATION"

\* C6 witness: a plain started run whose dt sum is exactly 150.
C6_Witness ==
    /\ runKind = "advancing"
    /\ sumDt = 150
    /\ time_s = 150

\* C7: a plain started run whose dt sum is 160 is in TNI ACTIVATION with
\* active_links in 0..10, and active_links is in 0..10 in every state.
C7_Sum160IsActivationLinksInRange ==
    /\ active_links \in 0 .. 10
    /\ (runKind = "advancing" /\ sumDt = 160)
          => current_phase = "TNI ACTIVATION"

\* C7 witness: a plain started run whose dt sum is 160, with 5 links up.
C7_Witness ==
    /\ runKind = "advancing"
    /\ sumDt = 160
    /\ active_links = 5

\* C8 (as claimed): an update with dt = 0 leaves every field of the mission
\* state as it was (stated here for the five mission phases; from PRE-LAUNCH
\* it also fails, the phase becoming ASCENT).
C8_AdvanceZeroChangesNothing ==
    [][(AdvanceZero /\ current_phase # "PRE-LAUNCH")
         => UNCHANGED missionState]_vars

\* C8 (amended): an update with dt = 0 leaves time_s, altitude and the link
\* count as they were; it leaves the phase as it was except that the first
\* running update turns PRE-LAUNCH into ASCENT; and it leaves both errors and
\* the delta-v saved as they were unless it lands in ORBITAL INSERTION, where
\* the jitter is drawn again.
C8_AdvanceZeroChangesOnlyJitterAndPreLaunch ==
    [][AdvanceZero
         => /\ UNCHANGED <<time_s, altitude_km, active_links>>
            /\ current_phase # "PRE-LAUNCH" => current_phase' = current_phase
            /\ current_phase = "PRE-LAUNCH"
                  => current_phase' \in {"PRE-LAUNCH", "ASCENT"}
            /\ current_phase' # "ORBITAL INSERTION"
                  => UNCHANGED <<position_error_m, velocity_error_mps,
                                 dv_saved_mps>>]_vars

\* C8 witness: the only updates of a started run so far had dt = 0, and the
\* first of them has turned PRE-LAUNCH into ASCENT.
C8_Witness ==
    /\ runKind = "advancing"
    /\ sumDt = 0
    /\ is_running
    /\ current_phase = "ASCENT"

\* C9 (as claimed): within TNI DISCONNECT the link count never increases, and
\* a step of at most 1 s from TNI DISCONNECT into NOMINAL ORBIT arrives with
\* no link left.
C9_DisconnectRampsDownToZero ==
    [][~Reset
         => /\ (current_phase = "TNI DISCONNECT"
                  /\ current_phase' = "TNI DISCONNECT")
                 => active_links' <= active_links
            /\ (current_phase = "TNI DISCONNECT"
                  /\ current_phase' = "NOMINAL ORBIT"
                  /\ time_s' - time_s <= 1)
                 => active_links' = 0]_vars

\* C10 (as claimed): within TNI ACTIVATION the TNI is active and the link
\* count never decreases, and a step of at most 1 s that leaves TNI
\* ACTIVATION leaves it with the link count at 10.
C10_ActivationRampsUpToTen ==
    [][~Reset
         => /\ (current_phase = "TNI ACTIVATION"
                  /\ current_phase' = "TNI ACTIVATION")
                 => (active_links' >= active_links /\ is_tni_active')
            /\ (current_phase = "TNI ACTIVATION"
                  /\ current_phase' = "ORBITAL INSERTION"
                  /\ time_s' - time_s <= 1)
                 => active_links = 10]_vars

\* C11 (as claimed): in every reachable state the position error is at least
\* 0.03 m and the velocity error at least 0.003 m/s.
C11_ErrorFloorsHold ==
    /\ position_error_m >= 30000
    /\ velocity_error_mps >= 3000

\* C12: in every reachable state whose phase is ASCENT the TNI is inactive,
\* no link is up, both errors are at their baseline, and the altitude is
\* (t / 150) * 200 km, which lies in [0, 200).
C12_AscentState ==
    current_phase = "ASCENT"
        => /\ ~is_tni_active
           /\ active_links = 0
           /\ position_error_m = 25000000
           /\ velocity_error_mps = 150000
           /\ altitude_km * 150 = time_s * 200 * AltUnitsPerKm
           /\ 0 <= altitude_km
           /\ altitude_km < 200 * AltUnitsPerKm

\* C12 witness: late in ASCENT, paused at another speed, altitude 196 km.
C12_Witness ==
    /\ current_phase = "ASCENT"
    /\ time_s = 147
    /\ altitude_km = 196 * AltUnitsPerKm
    /\ ~is_running
    /\ speed_index = 0

\* The altitude bands of the phases that every run respects: below 200 km
\* before ORBITAL INSERTION, at least 200 km in ORBITAL INSERTION, and at
\* least 200 km in the later phases once an update has landed in ORBITAL
\* INSERTION (dv_saved_mps is assigned there and only there, never 0).
AltitudeBands ==
    /\ PhaseIdx(current_phase) <= 2 => altitude_km < 200 * AltUnitsPerKm
    /\ current_phase = "ORBITAL INSERTION" => altitude_km >= 200 * AltUnitsPerKm
    /\ (PhaseIdx(current_phase) >= 4 /\ dv_saved_mps # 0)
          => altitude_km >= 200 * AltUnitsPerKm

\* C13 (as claimed, its last part): the altitude is below 200 km before
\* ORBITAL INSERTION and at least 200 km in ORBITAL INSERTION and in every
\* later phase.
C13_AltitudeAtLeast200FromInsertionOn ==
    IF PhaseIdx(current_phase) <= 2
      THEN altitude_km < 200 * AltUnitsPerKm
      ELSE altitude_km >= 200 * AltUnitsPerKm

\* C13 (amended): without a reset the altitude never decreases; it is below
\* 200 km before ORBITAL INSERTION, at least 200 km in ORBITAL INSERTION, and
\* at least 200 km in TNI DISCONNECT and NOMINAL ORBIT when the run has had an
\* update land in ORBITAL INSERTION.
C13_AltitudeRampsUpward ==
    [][~Reset => (altitude_km' >= altitude_km /\ AltitudeBands')]_vars

\* C13 witness: TNI DISCONNECT reached through ORBITAL INSERTION, with the
\* altitude that ORBITAL INSERTION left at t = 289 (308.29 km).
C13_Witness ==
    /\ current_phase = "TNI DISCONNECT"
    /\ dv_saved_mps # 0
    /\ altitude_km = 200 * AltUnitsPerKm + 119 * 273

\* C14: in ORBITAL INSERTION dv_saved_mps is 45 * (1 - position_error_m / 25)
\* for the position error of the same state, whatever the velocity error
\* (45 - 1.8 * position_error_m, here in units of 1e-7 m/s against 1e-6 m),
\* and so lies in [0, 45]; an update that lands in any other phase leaves
\* dv_saved_mps as it was.
C14_DvSavedFromPositionError ==
    [][AdvanceStep
         => /\ current_phase' = "ORBITAL INSERTION"
                 => /\ dv_saved_mps' + 18 * position_error_m'
                         = 45000000 * DvUnitsPerMicro
                    /\ 0 <= dv_saved_mps'
                    /\ dv_saved_mps' <= 45000000 * DvUnitsPerMicro
            /\ current_phase' # "ORBITAL INSERTION"
                 => dv_saved_mps' = dv_saved_mps]_vars

\* C14 witness: ORBITAL INSERTION with the largest position jitter of the
\* model and the smallest velocity jitter.
C14_Witness ==
    /\ current_phase = "ORBITAL INSERTION"
    /\ position_error_m = InsertionPositionError(JitterLevels - 1)
    /\ velocity_error_mps = InsertionVelocityError(0)
    /\ dv_saved_mps = DvSaved(position_error_m)

\* C15: the mission state is changed by the update of a started simulator
\* only: a start/pause toggle, a speed change, and a whole frame of a paused
\* simulator (the update returns at once, then every drawing step runs) leave
\* time_s, phase, altitude, both errors, delta-v saved and active_links as
\* they were.
C15_OnlyAdvanceMutatesMissionState ==
    [][(Toggle \/ SpeedUp \/ SpeedDown \/ (AdvanceStep /\ ~is_running))
          => UNCHANGED missionState]_vars

\* C15 witness: a simulator paused in TNI ACTIVATION at the top speed, with
\* the five links of t = 160 drawn on the screen.
C15_Witness ==
    /\ ~is_running
    /\ speed_index = 4
    /\ current_phase = "TNI ACTIVATION"
    /\ time_s = 160
    /\ active_links = 5
    /\ links_drawn = 5

(***************************************************************************)
(* Properties of the delta-v calculators.                                  *)
(***************************************************************************)
\* Every component of a breakdown is non-negative, and its total is the sum
\* of the seven and at least each of them.
WellFormed(b) ==
    /\ \A c \in ComponentNames : b[c] >= 0
    /\ Total(b) = b.search_acquisition + b.hohmann_transfer + b.plane_change
                    + b.approach_corrections + b.final_approach
                    + b.docking_maneuver + b.safety_margin
    /\ \A c \in ComponentNames : Total(b) >= b[c]

\* C16 (as claimed): in every state a breakdown can reach, after construction
\* and after any change to a component, its safety margin is 0.22 (standard)
\* or 0.09 (TNI) times the sum of its other six components.
C16_SafetyMarginIsFractionOfOtherSix ==
    scenario.analysed
        => /\ standard.safety_margin = MulDiv(SumOfSix(standard), 22, 100)
           /\ tni.safety_margin = MulDiv(SumOfSix(tni), 9, 100)

\* C17 (as claimed): for every scenario with separation >= 0 and inclination
\* difference >= 0, both breakdowns returned have seven non-negative
\* components, a total equal to their sum and at least each component.
C17_BreakdownsWellFormed ==
    (scenario.analysed /\ edits = 0)
        => (WellFormed(standard) /\ WellFormed(tni))

\* C17 (amended): the same for every scenario whose inclination difference
\* lies in [0, 360] degrees, where sin(angle / 2) is not negative.
C17_BreakdownsWellFormedUpTo360 ==
    (scenario.analysed /\ edits = 0 /\ scenario.inclination_diff_deg <= 360)
        => (WellFormed(standard) /\ WellFormed(tni))

\* C17 witness: a descent from 450 km to 350 km with a plane change of 180
\* degrees, both breakdowns with positive transfer and plane-change costs.
C17_Witness ==
    /\ scenario.analysed
    /\ edits = 0
    /\ scenario.chaser_alt = 450
    /\ scenario.target_alt = 350
    /\ scenario.inclination_diff_deg = 180
    /\ standard.hohmann_transfer > 0
    /\ tni.hohmann_transfer > 0
    /\ standard.plane_change > 0
    /\ tni.plane_change > 0

\* C18 (as claimed): for every scenario with separation >= 0 and inclination
\* difference >= 0 the standard total is at least the TNI total.
C18_StandardCostsAtLeastTni ==
    (scenario.analysed /\ edits = 0) => Total(standard) >= Total(tni)

\* C18 (amended): the standard total is at least the TNI total for every
\* scenario whose inclination difference lies in [0, 360] degrees.
C18_StandardCostsAtLeastTniUpTo360 ==
    (scenario.analysed /\ edits = 0 /\ scenario.inclination_diff_deg <= 360)
        => Total(standard) >= Total(tni)

\* C18 witness: the widest scenario with a 60 degree plane change; the saving
\* is positive and the plane change dominates both totals.
C18_Witness ==
    /\ scenario.analysed
    /\ edits = 0
    /\ scenario.chaser_alt = 350
    /\ scenario.target_alt = 450
    /\ scenario.separation_km = 200
    /\ scenario.inclination_diff_deg = 60
    /\ tni.plane_change > 1000 * DvUnitsPerMps
    /\ Total(standard) > Total(tni)

\* C19: hohmann_transfer returns two non-negative burns, and swapping its
\* arguments swaps them, so both orders have the same total.
C19_HohmannSwapsBurns ==
    hohmann.r1_km # 0
        => /\ hohmann.forward[1] >= 0
           /\ hohmann.forward[2] >= 0
           /\ hohmann.forward[1] = hohmann.backward[2]
           /\ hohmann.forward[2] = hohmann.backward[1]
           /\ hohmann.forward[1] + hohmann.forward[2]
                = hohmann.backward[1] + hohmann.backward[2]

\* C19 witness: the transfer from 350 km up to 450 km, whose two burns differ.
C19_Witness ==
    /\ hohmann.r1_km = RadiusKm(350)
    /\ hohmann.r2_km = RadiusKm(450)
    /\ hohmann.forward[1] > hohmann.forward[2]
    /\ hohmann.forward[2] > 0

\* C20 (as claimed): phasing_maneuver(r, angle) is the whole cost of the
\* transfer down by 5 km plus the whole cost of the transfer back up, and is
\* the same for every phase angle.
C20_PhasingIsSumOfBothTransfers ==
    phasing.r_km # 0
        => LET down == HohmannTransfer(phasing.r_km, phasing.r_km - 5)
               up == HohmannTransfer(phasing.r_km - 5, phasing.r_km)
           IN  /\ phasing.dv = (down[1] + down[2]) + (up[1] + up[2])
               /\ \A a \in PhaseAngleValues :
                      PhasingManeuver(phasing.r_km, a) = phasing.dv

(***************************************************************************)
(* Further properties of the mission phase simulator.                      *)
(***************************************************************************)
\* C25: while is_running is false, a frame's update changes nothing: time_s,
\* phase, altitude, both errors, delta-v saved, link count, TNI flag, the
\* vehicle and every satellite stay as they were, for any dt.
C25_PausedAdvanceChangesNothing ==
    [][(AdvanceStep /\ ~is_running)
          => UNCHANGED <<time_s, current_phase, altitude_km, position_error_m,
                         velocity_error_mps, dv_saved_mps, active_links,
                         is_tni_active, is_running, vehicle, satellites>>]_vars

\* C25 witness: a plain run stopped by NOMINAL ORBIT at t = 310 on which more
\* frames have been advanced since (the dt of the run sum to over 310 s).
C25_Witness ==
    /\ ~is_running
    /\ current_phase = "NOMINAL ORBIT"
    /\ time_s = 310
    /\ runKind = "advancing"
    /\ sumDt > 310

\* C26 (as claimed): in every reachable state is_tni_active is true exactly
\* when the phase is TNI ACTIVATION, ORBITAL INSERTION or TNI DISCONNECT, and
\* no link is drawn in PRE-LAUNCH, ASCENT and NOMINAL ORBIT.
C26_TniFlagFollowsPhase ==
    /\ is_tni_active
         <=> current_phase \in {"TNI ACTIVATION", "ORBITAL INSERTION",
                                "TNI DISCONNECT"}
    /\ current_phase \in {"PRE-LAUNCH", "ASCENT", "NOMINAL ORBIT"}
         => links_drawn = 0

\* C27: after any step speed_index is in 0..4, the multiplier is
\* SPEED_MULTIPLIERS[speed_index] and strictly positive; a speed request moves
\* the index by one inside the range and is a no-op at either end.
C27_SpeedSaturates ==
    [][/\ speed_index' \in 0 .. 4
       /\ current_speed_multiplier' = SPEED_MULTIPLIERS[speed_index' + 1]
       /\ current_speed_multiplier' > 0
       /\ SpeedUp => speed_index' = Min(4, speed_index + 1)
       /\ SpeedDown => speed_index' = Max(0, speed_index - 1)]_vars

\* C27 witness: the simulator at 4x after speed requests, still at 4x (16
\* quarters) with time standing at 0: reached only through speed-up requests.
C27_Witness ==
    /\ speed_index = 4
    /\ current_speed_multiplier = 16
    /\ runKind = "other"
    /\ time_s = 0
    /\ ~is_running

\* C28: a reset from any reachable state gives the initial state: time_s 0,
\* PRE-LAUNCH, altitude 0, errors 25 m and 0.15 m/s, delta-v saved 0, no
\* links, TNI inactive, speed 1x, not running; it is the state the first run
\* started from, so the phases can start again from ASCENT.
C28_ResetRestoresInitialState ==
    [][Reset
          => /\ time_s' = 0
             /\ current_phase' = "PRE-LAUNCH"
             /\ altitude_km' = 0
             /\ position_error_m' = 25000000
             /\ velocity_error_mps' = 150000
             /\ dv_saved_mps' = 0
             /\ active_links' = 0
             /\ ~is_tni_active'
             /\ speed_index' = 2
             /\ current_speed_multiplier' = 4
             /\ ~is_running'
             /\ vehicle' = InitVehicle
             /\ satellites' = InitSatellites]_vars

\* C28 witness: the state a reset leaves (runKind is "reset" only then), from
\* which a start and an update lead to ASCENT as they do from Init.
C28_Witness ==
    /\ runKind = "reset"
    /\ time_s = 0
    /\ current_phase = "PRE-LAUNCH"
    /\ speed_index = 2
    /\ ~is_running

\* C24: when the simulator is started, every pause is followed by a start
\* and the update keeps being called with dt > 0, the simulator eventually
\* is in NOMINAL ORBIT with is_running false, whatever speeds are selected
\* on the way.
C24_EventuallyNominalAndStopped ==
    <>(current_phase = "NOMINAL ORBIT" /\ ~is_running)

\* C24 witness: NOMINAL ORBIT reached and stopped at the slowest speed.
C24_Witness ==
    /\ current_phase = "NOMINAL ORBIT"
    /\ ~is_running
    /\ speed_index = 0
    /\ time_s = 310

\* C23 (as claimed): for chaser 395 km / target 400 km,
\* hohmann_transfer(6766, 6771) returns two strictly positive burns whose sum
\* is under 1 m/s.
C23_SmallTransferUnderOneMps ==
    (hohmann.r1_km = 6766 /\ hohmann.r2_km = 6771)
        => /\ hohmann.forward[1] > 0
           /\ hohmann.forward[2] > 0
           /\ hohmann.forward[1] + hohmann.forward[2] < 1 * DvUnitsPerMps

\* C23 (amended): hohmann_transfer(6766, 6771) returns two strictly positive
\* burns of about 1.42 m/s each, whose sum is about 2.83 m/s: between 2.8 and
\* 2.9 m/s, under 3 m/s.
C23_SmallTransferUnderThreeMps ==
    (hohmann.r1_km = 6766 /\ hohmann.r2_km = 6771)
        => /\ hohmann.forward[1] > 0
           /\ hohmann.forward[2] > 0
           /\ 10 * (hohmann.forward[1] + hohmann.forward[2]) > 28 * DvUnitsPerMps
           /\ 10 * (hohmann.forward[1] + hohmann.forward[2]) < 29 * DvUnitsPerMps

\* The 395 km to 400 km transfer has been computed.
C23_Witness ==
    /\ hohmann.r1_km = RadiusKm(395)
    /\ hohmann.r2_km = RadiusKm(400)
    /\ hohmann.r1_km = 6766
    /\ hohmann.forward[1] > hohmann.forward[2]

\* C21 (as claimed): for valid arguments, calculate_propellant_cost_savings
\* returns the propellant mass of calculate_propellant_mass (to within 0.01
\* kg), its cost is 0.50 times its mass, and both masses are 0 for dv = 0.
C21_ProjectorUsesRocketEquation ==
    (propellant.called /\ propellant.isp_s > 0 /\ propellant.dry_mass_kg > 0)
        => /\ ~propellant.savings.raised
           /\ ~propellant.mass.raised
           /\ Abs(propellant.savings.kg - propellant.mass.kg)
                  <= MassUnitsPerKg \div 100
           /\ propellant.savings.usd = propellant.savings.kg \div 2
           /\ propellant.dv_ms = 0
                  => (propellant.savings.kg = 0 /\ propellant.mass.kg = 0)

\* C22 (as claimed): a non-positive isp_s or dry_mass_kg given to the rocket
\* equation, and a negative altitude or non-positive radius given to the
\* orbit model or the rendezvous cost model, end in an error and return no
\* number.
C22_InvalidInputIsRejected ==
    /\ (propellant.called
          /\ (propellant.isp_s <= 0 \/ propellant.dry_mass_kg <= 0))
           => propellant.mass.raised
    /\ (orbit.called /\ (orbit.alt_km < 0 \/ RadiusKm(orbit.alt_km) <= 0))
           => (orbit.result.raised /\ orbit.rendezvous.raised)

\* The newest samples of a history, at most MaxHistory of them, oldest first.
LatestSamples(history) ==
    SubSeq(history, Len(history) - Min(Len(history), MaxHistory) + 1,
           Len(history))

\* C29: after every update(dt) the four histories have the same length, at
\* most max_history, and each is its earlier content followed by the new
\* sample (the velocities in mm/s), cut to the newest max_history samples.
C29_HistoriesKeepLatestSamples ==
    [][time' # time =>
         /\ Len(pos_history_std') <= MaxHistory
         /\ Len(pos_history_tni') = Len(pos_history_std')
         /\ Len(vel_history_std') = Len(pos_history_std')
         /\ Len(vel_history_tni') = Len(pos_history_std')
         /\ pos_history_std' =
                LatestSamples(Append(pos_history_std, data'.standard_pos_error))
         /\ pos_history_tni' =
                LatestSamples(Append(pos_history_tni, data'.tni_pos_error))
         /\ vel_history_std' =
                LatestSamples(Append(vel_history_std,
                                     data'.standard_vel_error * 1000))
         /\ vel_history_tni' =
                LatestSamples(Append(vel_history_tni,
                                     data'.tni_vel_error * 1000))]_allVars

\* More updates than max_history have run (no update adds more than 5 s), so
\* the histories are full and the oldest sample has been dropped.
C29_Witness ==
    /\ time > 5 * MaxHistory
    /\ Len(pos_history_std) = MaxHistory
    /\ Len(vel_history_tni) = MaxHistory
    /\ pos_history_tni[MaxHistory] = data.tni_pos_error

\* C30 (as claimed): after every update that leaves time below 5 s dv_saved
\* is 0, and dv_saved always lies in [0, 45] m/s.
C30_DvSavedZeroBeforeActivation ==
    /\ (time > 0 /\ time < 5) => data.dv_saved = 0
    /\ data.dv_saved >= 0
    /\ data.dv_saved <= 45000000

====
